---------------------------- MODULE Spec2Model ----------------------------
(***************************************************************************)
(* deepMapKeys of y0n1/json-utils: the tree construction with its cycle    *)
(* guard (lib/node.ts), the key-mutating visitor (lib/visitor.ts), the     *)
(* reconstruction (Node.toJsonValue) and the entry point (mod.ts).         *)
(*                                                                         *)
(* Text is a sequence of one-character strings, so that path formatting    *)
(* and pattern matching are computed character by character.  A JSON       *)
(* container lives in `heap` under its reference; a value held in a slot   *)
(* is a scalar, undefined, or a reference to a container.                  *)
(***************************************************************************)
EXTENDS Integers, Sequences, FiniteSets, TLC

(***************************************************************************)
(* Bounds of the model.                                                    *)
(***************************************************************************)
\* Members of an object, elements of an array, of the outer container.
MaxLen == 2

(***************************************************************************)
(* Text: keys and paths are sequences of one-character strings.            *)
(***************************************************************************)
K_dollar == <<"$">>
K_snake  == <<"a", "_", "b">>
K_space  == <<"a", " ", "b">>
K_camel  == <<"a", "B">>
K_empty  == <<>>

\* The member keys the inputs use, in the order Object.entries lists them.
KeyOrder  == <<K_space, K_dollar, K_snake>>
InputKeys == {KeyOrder[i] : i \in 1..Len(KeyOrder)}
KeyIndex(k) == CHOOSE i \in 1..Len(KeyOrder) : KeyOrder[i] = k

\* Node.key is `string | number`: a member name or an array index.
StrKey(s) == [num |-> FALSE, n |-> 0, s |-> s]
IdxKey(i) == [num |-> TRUE,  n |-> i, s |-> <<>>]

(***************************************************************************)
(* Values: what a variable, an object member or an array slot can hold.    *)
(***************************************************************************)
Num       == [t |-> "number",    r |-> 0]
Undefined == [t |-> "undefined", r |-> 0]
SetValue  == [t |-> "Set",       r |-> 0]
Ref(r)    == [t |-> "ref",       r |-> r]

Refs == {1, 2}

Entry(k, v) == [k |-> k, v |-> v]

RECURSIVE SeqsUpTo(_, _)
SeqsUpTo(E, n) ==
  IF n = 0 THEN {<<>>}
  ELSE LET S == SeqsUpTo(E, n - 1) IN S \cup {Append(s, e) : s \in S, e \in E}

\* Object.entries order: members are listed in KeyOrder, each key at most once.
Ordered(es) ==
  \A i \in 1..Len(es) : \A j \in 1..Len(es) :
    i < j => KeyIndex(es[i].k) < KeyIndex(es[j].k)

ObjectsOver(V, n) ==
  {[kind |-> "object", entries |-> es] :
     es \in {s \in SeqsUpTo([k : InputKeys, v : V], n) : Ordered(s)}}

ArraysOver(V, n) ==
  {[kind |-> "array", entries |-> es] : es \in SeqsUpTo([k : {K_empty}, v : V], n)}

\* Container 1 holds up to MaxLen members or elements; container 2 is an inner
\* container of at most one member or element that may point back to 1.
OuterContainers ==
  ObjectsOver({Num, Undefined, Ref(1), Ref(2)}, MaxLen)
    \cup ArraysOver({Num, Ref(1), Ref(2)}, MaxLen)
InnerContainers ==
  ObjectsOver({Num, Undefined, Ref(1)}, 1) \cup ArraysOver({Num, Ref(1)}, 1)

Heaps == {h \in [Refs -> OuterContainers \cup InnerContainers] :
            h[1] \in OuterContainers /\ h[2] \in InnerContainers}

Inputs == {Num, Undefined, SetValue} \cup {Ref(r) : r \in Refs}

(***************************************************************************)
(* lib/json.ts: the type predicates, on the current heap.                  *)
(***************************************************************************)
isJsonScalar(value) == value.t \in {"number", "string", "boolean", "null"}

isJsonObject(h, value) == value.t = "ref" /\ h[value.r].kind = "object"

isJsonArray(h, value) == value.t = "ref" /\ h[value.r].kind = "array"

isJsonValue_TypeofOnly(h, value) == value.t # "undefined"

isJsonValue(h, value) ==
  /\ value.t # "undefined"
  /\ (isJsonScalar(value) \/ isJsonObject(h, value) \/ isJsonArray(h, value))

(***************************************************************************)
(* lib/node.ts: path segments.                                             *)
(***************************************************************************)
Digit == <<"0", "1", "2", "3", "4", "5", "6", "7", "8", "9">>

RECURSIVE Decimal(_)
Decimal(n) ==
  IF n < 10 THEN <<Digit[n + 1]>>
  ELSE Decimal(n \div 10) \o <<Digit[(n % 10) + 1]>>

Whitespace == {" ", "\t", "\n", "\r"}

\* /(\s|\.)/.test(value)
NeedsBrackets(s) == \E i \in 1..Len(s) : s[i] \in Whitespace \cup {"."}

toJsonPathSegment(key) ==
  IF key.num THEN <<"[">> \o Decimal(key.n) \o <<"]">>
  ELSE IF NeedsBrackets(key.s) THEN <<"[", "'">> \o key.s \o <<"'", "]">>
  ELSE <<".">> \o key.s

(***************************************************************************)
(* The caller's arguments: mutation functions and skip patterns.           *)
(***************************************************************************)
\* lodash's camelCase and snakeCase on the member keys in use.
MutationFunctions == {"camelCase", "snakeCase"}

Apply(f, s) ==
  IF f = "camelCase"
  THEN (IF s = K_dollar THEN K_empty ELSE K_camel)
  ELSE (IF s = K_dollar THEN K_empty ELSE K_snake)

\* A RegExp of literal text, optionally anchored with ^ and $.
Pattern(text, atStart, atEnd) == [text |-> text, atStart |-> atStart, atEnd |-> atEnd]

\* RegExp.prototype.test
Test(regex, s) ==
  \E i \in 1..(Len(s) - Len(regex.text) + 1) :
    /\ SubSeq(s, i, i + Len(regex.text) - 1) = regex.text
    /\ regex.atStart => i = 1
    /\ regex.atEnd => i + Len(regex.text) - 1 = Len(s)

\* /^\$$/, /^\$\.a_b$/ and /\['a b'\]$/
P_root     == Pattern(<<"$">>, TRUE, TRUE)
P_topSnake == Pattern(<<"$", ".", "a", "_", "b">>, TRUE, TRUE)
P_spaceEnd == Pattern(<<"[", "'", "a", " ", "b", "'", "]">>, FALSE, TRUE)

SkipLists == {<<>>, <<P_topSnake>>, <<P_spaceEnd, P_root>>}

(***************************************************************************)
(* State                                                                   *)
(***************************************************************************)
VARIABLES
  heap,      \* the caller's containers, by reference
  refs,      \* lib/node.ts: the module-level Set of registered containers
  pc,        \* where the current deepMapKeys call stands
  input,     \* the argument of the current (or last) call
  fn,        \* Visitor.#onVisitObjectKey
  skipList,  \* Visitor.#skipList
  debug,     \* Visitor.#isDebugEnabled
  nodes,     \* the Node instances allocated by the current call, in order
  cstack,    \* constructor invocations in progress: [id, i, entered]
  vstack,    \* visitObject / visitArray invocations in progress: [id, i]
  outcome,   \* how the last call ended
  result,    \* the value the last call returned
  emitted,   \* the paths written by console.log
  fArgs      \* the keys the mutation function was called with

vars == <<heap, refs, pc, input, fn, skipList, debug, nodes, cstack, vstack,
          outcome, result, emitted, fArgs>>

NoResult == [t |-> "none", v |-> Undefined, e |-> <<>>]

\* A value returned as it is: a scalar, or the very container passed in.
Same(v) == [t |-> "same", v |-> v, e |-> <<>>]

\* A container allocated by toJsonValue; e lists [k, x] in insertion order.
Fresh(kind, e) == [t |-> kind, v |-> Undefined, e |-> e]

Init ==
  /\ heap \in Heaps
  /\ refs = {}
  /\ pc = "idle"
  /\ input = Undefined
  /\ fn = "camelCase"
  /\ skipList = <<>>
  /\ debug = FALSE
  /\ nodes = <<>>
  /\ cstack = <<>>
  /\ vstack = <<>>
  /\ outcome = "none"
  /\ result = NoResult
  /\ emitted = <<>>
  /\ fArgs = <<>>

(***************************************************************************)
(* lib/node.ts: the Node constructor                                       *)
(***************************************************************************)
Last(stk) == stk[Len(stk)]
Pop(stk)  == SubSeq(stk, 1, Len(stk) - 1)

\* detectCircularReference throws when the container is already registered.
detectCircularReference(rfs, value) == value.r \in rfs

\* `if (key === "$")`: the test that tells the top node from the others.
IsRootKey(key) == key = StrKey(K_dollar)

\* The members of an object that get a child node.
ObjectChildren_KeepUndefined(es) == es

ObjectChildren(es) == SelectSeq(es, LAMBDA e : e.v.t # "undefined")

\* value.map((jsonValue, idx) => ...) and Object.entries(value): the (key, value)
\* pairs a container's constructor builds children for, in order.
ChildEntries(h, value) ==
  LET es == h[value.r].entries IN
  IF h[value.r].kind = "array"
  THEN [j \in 1..Len(es) |-> Entry(IdxKey(j - 1), es[j].v)]
  ELSE LET ds == ObjectChildren(es) IN
       [j \in 1..Len(ds) |-> Entry(StrKey(ds[j].k), ds[j].v)]

AddChild(nds, parentId, childId) ==
  [nds EXCEPT ![parentId].children = Append(@, childId)]

\* The construction of a container depends on the heap, the container and the
\* references registered when it starts, and on nothing else.  So when a
\* constructor is invoked for a container while an enclosing invocation for the
\* same container, started with the same registered references, is still open,
\* the recursion repeats without end: the host's call stack overflows.
Recurs(nds, stk, rfs, value) ==
  \E j \in 1..Len(stk) : nds[stk[j].id].value = value /\ stk[j].entered = rfs

\* The containers reachable from a container, itself included.
Holds(h, r) ==
  {h[r].entries[j].v.r : j \in {i \in 1..Len(h[r].entries) : h[r].entries[i].v.t = "ref"}}

RECURSIVE Below(_, _, _)
Below(h, S, n) ==
  IF n = 0 THEN S ELSE Below(h, S \cup UNION {Holds(h, r) : r \in S}, n - 1)

Reachable(h, value) == Below(h, {value.r}, Cardinality(Refs))

\* One invocation `new Node(key, value, parent)` made while the frames `stk` are
\* open, up to the point where it either throws, returns (a scalar) or is about to
\* build its first child (a container).  Gives the error thrown, if any, and the
\* nodes, the registered references and the open frames afterwards.
Begin(h, key, value, parent, nds, rfs, stk) ==
  LET id == Len(nds) + 1
      par == IF IsRootKey(key) THEN 0 ELSE parent
      path == IF IsRootKey(key) THEN K_dollar
              ELSE nds[parent].jsonpath \o toJsonPathSegment(key)
      node(kind) == [key |-> key, value |-> value, parent |-> par, kind |-> kind,
                     children |-> <<>>, jsonpath |-> path]
  IN
  IF ~IsRootKey(key) /\ parent = 0
  THEN [thrown |-> "InvalidArgument", nodes |-> nds, refs |-> rfs, cstack |-> stk]
  ELSE IF value.t = "ref"
  THEN IF detectCircularReference(rfs, value)
       THEN [thrown |-> "CircularReference", nodes |-> nds, refs |-> rfs, cstack |-> stk]
       ELSE IF Recurs(nds, stk, rfs, value)
       THEN [thrown |-> "RangeError", nodes |-> nds, refs |-> rfs, cstack |-> stk]
       ELSE [thrown |-> "none",
             nodes  |-> Append(nds, node(h[value.r].kind)),
             refs   |-> rfs \cup {value.r},
             cstack |-> Append(stk, [id |-> id, i |-> 1, entered |-> rfs])]
  ELSE [thrown |-> "none",
        nodes  |-> IF stk = <<>> THEN Append(nds, node("scalar"))
                   ELSE AddChild(Append(nds, node("scalar")), Last(stk).id, id),
        refs   |-> IF par = 0 THEN {} ELSE rfs,
        cstack |-> stk]

\* The call ends by throwing `what`: nothing is returned and the tree is dropped.
Throw(what) ==
  /\ pc' = "done"
  /\ outcome' = what
  /\ result' = NoResult
  /\ nodes' = <<>>
  /\ cstack' = <<>>
  /\ vstack' = <<>>

\* What a step of the construction leaves behind.  The stack overflows
\* somewhere along the endless recursion, with whatever is registered there.
Built(b) ==
  IF b.thrown = "RangeError"
  THEN Throw(b.thrown) /\ refs' \in SUBSET Reachable(heap, input)
  ELSE IF b.thrown # "none"
  THEN Throw(b.thrown) /\ refs' = b.refs
  ELSE /\ nodes' = b.nodes
       /\ refs' = b.refs
       /\ cstack' = b.cstack
       /\ pc' = IF b.cstack = <<>> THEN "built" ELSE "build"
       /\ UNCHANGED <<outcome, result, vstack>>

(***************************************************************************)
(* mod.ts: deepMapKeys, up to `new Node("$", input)`                       *)
(***************************************************************************)
IsEmptyContainer_Never(h, value) == FALSE

\* isJsonObject(input) && Object.keys(input).length === 0 ||
\* isJsonArray(input) && input.length === 0
IsEmptyContainer(h, value) ==
  \/ isJsonObject(h, value) /\ Len(h[value.r].entries) = 0
  \/ isJsonArray(h, value) /\ Len(h[value.r].entries) = 0

Call(v, f, sl, dbg) ==
  /\ pc = "idle"
  /\ input' = v
  /\ fn' = f
  /\ skipList' = sl
  /\ debug' = dbg
  /\ emitted' = <<>>
  /\ fArgs' = <<>>
  /\ UNCHANGED heap
  /\ IF ~isJsonValue(heap, v)
     THEN Throw("InvalidArgument") /\ UNCHANGED refs
     ELSE IF IsEmptyContainer(heap, v)
     THEN /\ pc' = "done"
          /\ outcome' = "returned"
          /\ result' = Same(v)
          /\ nodes' = <<>>
          /\ cstack' = <<>>
          /\ vstack' = <<>>
          /\ UNCHANGED refs
     ELSE /\ outcome' = "none"
          /\ result' = NoResult
          /\ vstack' = <<>>
          /\ LET b == Begin(heap, StrKey(K_dollar), v, 0, <<>>, refs, <<>>) IN
             IF b.thrown # "none"
             THEN /\ pc' = "done" /\ outcome' = b.thrown
                  /\ nodes' = <<>> /\ cstack' = <<>> /\ refs' = b.refs
             ELSE /\ nodes' = b.nodes /\ refs' = b.refs /\ cstack' = b.cstack
                  /\ pc' = IF b.cstack = <<>> THEN "built" ELSE "build"

\* The constructor of the container on top of the stack builds its next child.
BuildChild ==
  /\ pc = "build"
  /\ LET top == Last(cstack)
         es == ChildEntries(heap, nodes[top.id].value)
     IN
     /\ top.i <= Len(es)
     /\ Built(Begin(heap, es[top.i].k, es[top.i].v, top.id, nodes, refs,
                     [cstack EXCEPT ![Len(cstack)].i = top.i + 1]))
  /\ UNCHANGED <<heap, input, fn, skipList, debug, emitted, fArgs>>

\* The constructor of the container on top of the stack has built all its
\* children: `if (this.parent === null) refs.clear()`, and it returns.
BuildReturn ==
  /\ pc = "build"
  /\ LET top == Last(cstack)
         es == ChildEntries(heap, nodes[top.id].value)
         rest == Pop(cstack)
     IN
     /\ top.i > Len(es)
     /\ refs' = IF nodes[top.id].parent = 0 THEN {} ELSE refs
     /\ cstack' = rest
     /\ nodes' = IF rest = <<>> THEN nodes ELSE AddChild(nodes, Last(rest).id, top.id)
     /\ pc' = IF rest = <<>> THEN "built" ELSE "build"
  /\ UNCHANGED <<heap, input, fn, skipList, debug, vstack, outcome, result,
                 emitted, fArgs>>

(***************************************************************************)
(* lib/visitor.ts: the Visitor                                             *)
(***************************************************************************)
\* this.#skipList.some((regex) => regex.test(child.jsonpath))
Skipped(sl, child) == \E j \in 1..Len(sl) : Test(sl[j], child.jsonpath)

\* Whether visiting the node of kind `kind` passes the key of its child to the
\* mutation function: visitObject does unless the child is skipped, visitArray
\* never does.
MutatesKey_Never(kind, sl, child) == FALSE

MutatesKey_AlsoInArrays(kind, sl, child) == ~Skipped(sl, child)

MutatesKey(kind, sl, child) == kind = "object" /\ ~Skipped(sl, child)

\* `child.key = newKey`: the child's key field is overwritten, and nothing else
\* of the child is.
SetKey_RewritesPath(nds, c, k) ==
  [nds EXCEPT ![c].key = k, ![c].jsonpath = K_dollar \o toJsonPathSegment(k)]

SetKey_AlsoValue(nds, c, k) == [nds EXCEPT ![c].key = k, ![c].value = Undefined]

SetKey(nds, c, k) == [nds EXCEPT ![c].key = k]

\* mod.ts `node.accept(visitor)`: the top node is visited.
StartVisit ==
  /\ pc = "built"
  /\ emitted' = IF debug THEN Append(emitted, nodes[1].jsonpath) ELSE emitted
  /\ IF nodes[1].kind = "scalar"
     THEN pc' = "visited" /\ vstack' = <<>>
     ELSE pc' = "visit" /\ vstack' = <<[id |-> 1, i |-> 1]>>
  /\ UNCHANGED <<heap, refs, input, fn, skipList, debug, nodes, cstack, outcome,
                 result, fArgs>>

\* One round of the forEach of visitObject or visitArray: the child's key is
\* set, then the child accepts the visitor.
VisitChild ==
  /\ pc = "visit"
  /\ LET top == Last(vstack)
         kids == nodes[top.id].children
     IN
     /\ top.i <= Len(kids)
     /\ LET c == kids[top.i]
            child == nodes[c]
            calls == MutatesKey(nodes[top.id].kind, skipList, child)
            advanced == [vstack EXCEPT ![Len(vstack)].i = top.i + 1]
        IN
        /\ fArgs' = IF calls THEN Append(fArgs, child.key) ELSE fArgs
        /\ nodes' = IF nodes[top.id].kind = "object"
                    THEN SetKey(nodes, c, IF calls THEN StrKey(Apply(fn, child.key.s))
                                          ELSE child.key)
                    ELSE nodes
        /\ emitted' = IF debug THEN Append(emitted, child.jsonpath) ELSE emitted
        /\ vstack' = IF child.kind = "scalar" THEN advanced
                     ELSE Append(advanced, [id |-> c, i |-> 1])
  /\ UNCHANGED <<heap, refs, pc, input, fn, skipList, debug, cstack, outcome, result>>

\* The forEach on top of the stack is over: visitObject / visitArray returns.
VisitReturn ==
  /\ pc = "visit"
  /\ Last(vstack).i > Len(nodes[Last(vstack).id].children)
  /\ vstack' = Pop(vstack)
  /\ pc' = IF Len(vstack) = 1 THEN "visited" ELSE "visit"
  /\ UNCHANGED <<heap, refs, input, fn, skipList, debug, nodes, cstack, outcome,
                 result, emitted, fArgs>>

(***************************************************************************)
(* lib/node.ts: Node.toJsonValue                                           *)
(***************************************************************************)
\* obj[k] = x: a new key is added last, an existing key keeps its place.
Assign_FirstWins(e, k, x) ==
  IF \E j \in 1..Len(e) : e[j].k = k THEN e ELSE Append(e, [k |-> k, x |-> x])

Assign(e, k, x) ==
  IF \E j \in 1..Len(e) : e[j].k = k
  THEN [j \in 1..Len(e) |-> IF e[j].k = k THEN [k |-> k, x |-> x] ELSE e[j]]
  ELSE Append(e, [k |-> k, x |-> x])

RECURSIVE toJsonValue(_, _)
RECURSIVE ObjectOf(_, _, _)

\* for (const child of this.#children ?? []) obj[child.key] = child.toJsonValue()
ObjectOf(nds, kids, n) ==
  IF n = 0 THEN <<>>
  ELSE Assign(ObjectOf(nds, kids, n - 1), nds[kids[n]].key.s, toJsonValue(nds, kids[n]))

toJsonValue(nds, id) ==
  LET kids == nds[id].children IN
  IF nds[id].kind = "scalar" THEN Same(nds[id].value)
  ELSE IF nds[id].kind = "array"
  THEN Fresh("array",
             [j \in 1..Len(kids) |-> [k |-> K_empty, x |-> toJsonValue(nds, kids[j])]])
  ELSE Fresh("object", ObjectOf(nds, kids, Len(kids)))

\* mod.ts `return node.toJsonValue()`
Return ==
  /\ pc = "visited"
  /\ result' = toJsonValue(nodes, 1)
  /\ outcome' = "returned"
  /\ pc' = "done"
  /\ UNCHANGED <<heap, refs, input, fn, skipList, debug, nodes, cstack, vstack,
                 emitted, fArgs>>

(***************************************************************************)
(* The caller                                                              *)
(***************************************************************************)
\* The caller has taken the result or caught the error, and holds nothing of
\* the call any more: only the heap and the module-level `refs` live on.
Resume ==
  /\ pc = "done"
  /\ pc' = "idle"
  /\ input' = Undefined
  /\ fn' = "camelCase"
  /\ skipList' = <<>>
  /\ debug' = FALSE
  /\ nodes' = <<>>
  /\ cstack' = <<>>
  /\ vstack' = <<>>
  /\ outcome' = "none"
  /\ result' = NoResult
  /\ emitted' = <<>>
  /\ fArgs' = <<>>
  /\ UNCHANGED <<heap, refs>>

(***************************************************************************)
(* Specification                                                           *)
(***************************************************************************)
Next ==
  \/ \E v \in Inputs, f \in MutationFunctions, sl \in SkipLists, dbg \in BOOLEAN :
       Call(v, f, sl, dbg)
  \/ BuildChild
  \/ BuildReturn
  \/ StartVisit
  \/ VisitChild
  \/ VisitReturn
  \/ Return
  \/ Resume

Spec == Init /\ [][Next]_vars

(***************************************************************************)
(* What the claims speak of, stated on the input alone                     *)
(***************************************************************************)
Returned == pc = "done" /\ outcome = "returned"

\* The members of an object that exist: those whose value is not undefined.
Members(es) == SelectSeq(es, LAMBDA e : e.v # Undefined)

\* The path segment of a key as the specification words it.
Segment(key) ==
  IF key.num THEN <<"[">> \o Decimal(key.n) \o <<"]">>
  ELSE IF \E i \in 1..Len(key.s) : key.s[i] \in {" ", "\t", "\n", "\r", "."}
  THEN <<"[", "'">> \o key.s \o <<"'", "]">>
  ELSE <<".">> \o key.s

Matches(sl, path) == \E j \in 1..Len(sl) : Test(sl[j], path)

\* The key a member k at `path` is to have in the result.
ExpectedKey(f, sl, path, k) == IF Matches(sl, path) THEN k ELSE Apply(f, k)

\* The value deepMapKeys is to return for the value v found at `path`: every
\* member renamed unless its own path matches a skip pattern, nothing else changed.
RECURSIVE Expected(_, _, _, _, _)
Expected(h, v, f, sl, path) ==
  IF v.t # "ref" THEN Same(v)
  ELSE IF h[v.r].kind = "array"
  THEN LET es == h[v.r].entries IN
       Fresh("array",
             [j \in 1..Len(es) |->
                [k |-> K_empty,
                 x |-> Expected(h, es[j].v, f, sl, path \o Segment(IdxKey(j - 1)))]])
  ELSE LET ms == Members(h[v.r].entries) IN
       Fresh("object",
             [j \in 1..Len(ms) |->
                LET p == path \o Segment(StrKey(ms[j].k)) IN
                [k |-> ExpectedKey(f, sl, p, ms[j].k),
                 x |-> Expected(h, ms[j].v, f, sl, p)]])

\* No two sibling members are to get the same key, at any depth.
RECURSIVE NoCollision(_, _, _, _, _)
NoCollision(h, v, f, sl, path) ==
  IF v.t # "ref" THEN TRUE
  ELSE IF h[v.r].kind = "array"
  THEN LET es == h[v.r].entries IN
       \A j \in 1..Len(es) :
         NoCollision(h, es[j].v, f, sl, path \o Segment(IdxKey(j - 1)))
  ELSE LET ms == Members(h[v.r].entries)
           p(j) == path \o Segment(StrKey(ms[j].k))
       IN
       /\ \A i \in 1..Len(ms) : \A j \in 1..Len(ms) :
            i # j => ExpectedKey(f, sl, p(i), ms[i].k) # ExpectedKey(f, sl, p(j), ms[j].k)
       /\ \A j \in 1..Len(ms) : NoCollision(h, ms[j].v, f, sl, p(j))

\* Some container reachable from v contains itself, directly or through others.
Cyclic(h, v) ==
  /\ v.t = "ref"
  /\ \E r \in Reachable(h, v) : \E q \in Holds(h, r) : r \in Reachable(h, Ref(q))

\* The tree is complete: every node is listed among its encloser's children.
TreeBuilt == pc \in {"built", "visit", "visited"} \/ (Returned /\ nodes # <<>>)

\* The node that holds node id among its children (0 for the top node), the
\* place of id there, and the key the input gives it.
Encloser(id) ==
  IF \E n \in 1..Len(nodes) : \E j \in 1..Len(nodes[n].children) : nodes[n].children[j] = id
  THEN CHOOSE n \in 1..Len(nodes) :
         \E j \in 1..Len(nodes[n].children) : nodes[n].children[j] = id
  ELSE 0

Place(id) ==
  CHOOSE j \in 1..Len(nodes[Encloser(id)].children) : nodes[Encloser(id)].children[j] = id

OriginalKey(id) ==
  LET n == nodes[Encloser(id)] IN
  IF n.kind = "array" THEN IdxKey(Place(id) - 1)
  ELSE StrKey(Members(heap[n.value.r].entries)[Place(id)].k)

\* `$` followed by the segments of the keys from the top node down to id.
RECURSIVE Location(_)
Location(id) ==
  IF Encloser(id) = 0 THEN K_dollar
  ELSE Location(Encloser(id)) \o Segment(OriginalKey(id))

\* The input is a container with at least one member or element.
NonEmptyInput == input.t = "ref" /\ Len(heap[input.r].entries) > 0

(***************************************************************************)
(* Claims                                                                  *)
(***************************************************************************)

\* C1: with an empty skipList, when a call on a non-empty input returns and no
\* two sibling members get the same key, the result is the input with every
\* member key k (of a member that exists) replaced by f(k) at every depth, in
\* objects and in arrays, and nothing else changed.
C1_KeysMappedAtEveryDepth ==
  (Returned /\ NonEmptyInput /\ skipList = <<>>
     /\ NoCollision(heap, input, fn, <<>>, K_dollar))
    => result = Expected(heap, input, fn, <<>>, K_dollar)

\* C1 witness: an object in an object, both with a member renamed to aB.
C1_Witness ==
  /\ Returned /\ NonEmptyInput /\ skipList = <<>>
  /\ NoCollision(heap, input, fn, <<>>, K_dollar)
  /\ result.t = "object"
  /\ \E j \in 1..Len(result.e) :
       /\ result.e[j].k = K_camel
       /\ result.e[j].x.t = "object"
       /\ \E i \in 1..Len(result.e[j].x.e) : result.e[j].x.e[i].k = K_camel

\* C2: with a non-empty skipList, a member keeps its key when its own path ($
\* and the segments of the keys down to it) matches a pattern and gets f(key)
\* otherwise, decided member by member at every depth: absent collisions, the
\* result is the input renamed that way.
C2_SkipDecidedByOwnPath ==
  (Returned /\ NonEmptyInput /\ skipList # <<>>
     /\ NoCollision(heap, input, fn, skipList, K_dollar))
    => result = Expected(heap, input, fn, skipList, K_dollar)

\* C3: a call on an input in which a container contains itself ends by raising
\* CircularReference and returns nothing.
C3_CycleRaisesCircularReference ==
  (pc = "done" /\ Cyclic(heap, input))
    => (outcome = "CircularReference" /\ result = NoResult)

RECURSIVE NoUndefinedIn(_)
NoUndefinedIn(res) ==
  /\ res.v.t \notin {"undefined", "null"} \/ res.t # "same"
  /\ \A j \in 1..Len(res.e) : NoUndefinedIn(res.e[j].x)

\* C4: a member whose value is undefined gets no node and no entry in the
\* result, at any depth: each object node has one child per member that exists,
\* its reconstruction has no more entries than that and none holding undefined
\* or null, and an object whose members are all undefined gives a new empty object.
C4_UndefinedMembersOmitted ==
  (Returned /\ nodes # <<>>) =>
    /\ \A n \in 1..Len(nodes) : nodes[n].value # Undefined
    /\ \A n \in 1..Len(nodes) :
         nodes[n].kind = "object" =>
           LET ms == Members(heap[nodes[n].value.r].entries)
               out == toJsonValue(nodes, n)
           IN
           /\ Len(nodes[n].children) = Len(ms)
           /\ \A j \in 1..Len(ms) : nodes[nodes[n].children[j]].value = ms[j].v
           /\ Len(out.e) <= Len(ms)
           /\ ms = <<>> => out = Fresh("object", <<>>)
    /\ result = toJsonValue(nodes, 1)
    /\ NoUndefinedIn(result)

\* C4 witness: a nested object whose only member is undefined came out empty.
C4_Witness ==
  /\ Returned
  /\ \E n \in 2..Len(nodes) :
       /\ nodes[n].kind = "object"
       /\ heap[nodes[n].value.r].entries # <<>>
       /\ Members(heap[nodes[n].value.r].entries) = <<>>
       /\ toJsonValue(nodes, n) = Fresh("object", <<>>)
  /\ \E j \in 1..Len(result.e) : result.e[j].x = Fresh("object", <<>>)

C6_InvalidInputRejectedFirst ==
  [][(pc = "idle" /\ pc' # "idle" /\ input'.t \in {"undefined", "Set"})
       => /\ pc' = "done"
          /\ outcome' = "InvalidArgument"
          /\ result' = NoResult
          /\ nodes' = <<>>
          /\ refs' = refs
          /\ fArgs' = <<>>
          /\ emitted' = <<>>]_vars

\* C6 witness: a Set was passed with debug on, and the call raised InvalidArgument.
C6_Witness ==
  /\ pc = "done" /\ outcome = "InvalidArgument"
  /\ input = SetValue /\ debug
  /\ nodes = <<>> /\ emitted = <<>>

\* C7: after a call that returns normally the cycle guard's reference set is empty.
C7_GuardEmptyAfterReturn == Returned => refs = {}

\* C8: after a call aborted by CircularReference the cycle guard's reference set
\* has been cleared.
C8_GuardClearedAfterAbort ==
  (pc = "done" /\ outcome = "CircularReference") => refs = {}

\* The arrays of the input v are found in the result res with their length and
\* their scalar elements in place.
RECURSIVE ArraysKept(_, _, _)
ArraysKept(h, v, res) ==
  IF v.t # "ref" THEN TRUE
  ELSE IF h[v.r].kind = "array"
  THEN LET es == h[v.r].entries IN
       /\ res.t = "array"
       /\ Len(res.e) = Len(es)
       /\ \A j \in 1..Len(es) :
            /\ es[j].v.t # "ref" => res.e[j].x = Same(es[j].v)
            /\ ArraysKept(h, es[j].v, res.e[j].x)
  ELSE LET ms == Members(h[v.r].entries) IN
       Len(res.e) = Len(ms) => \A j \in 1..Len(ms) : ArraysKept(h, ms[j].v, res.e[j].x)

\* C9: every array of the input comes out with the same length, each scalar
\* element unchanged at its index; the nodes of array elements keep their index
\* as key, and no index is ever passed to the mutation function.
C9_ArraysKeepLengthAndOrder ==
  /\ \A i \in 1..Len(fArgs) : ~fArgs[i].num
  /\ TreeBuilt =>
       \A n \in 1..Len(nodes) :
         nodes[n].kind = "array" =>
           /\ Len(nodes[n].children) = Len(heap[nodes[n].value.r].entries)
           /\ \A j \in 1..Len(nodes[n].children) :
                nodes[nodes[n].children[j]].key = IdxKey(j - 1)
  /\ (Returned /\ nodes # <<>>) => ArraysKept(heap, input, result)

\* C9 witness: an array of a scalar and an object came back with the scalar
\* first and the object, a key of it renamed, second.
C9_Witness ==
  /\ Returned /\ NonEmptyInput
  /\ result.t = "array" /\ Len(result.e) = 2
  /\ result.e[1].x = Same(Num)
  /\ result.e[2].x.t = "object"
  /\ \E i \in 1..Len(result.e[2].x.e) : result.e[2].x.e[i].k = K_camel
  /\ fArgs # <<>>

\* C10: the segment of a key is [i] for an index, ['k'] for a string with a
\* whitespace character or a dot, .k for any other string, and the path of every
\* node is $ followed by the segments of the keys from the top node down to it.
C10_PathIsRootThenSegments ==
  TreeBuilt => \A n \in 1..Len(nodes) : nodes[n].jsonpath = Location(n)

\* The path the constructor gave node id: `$` for a node without parent, else
\* the parent's path followed by the segment of the key the input gives id.
RECURSIVE ConstructionPath(_)
ConstructionPath(id) ==
  IF nodes[id].parent = 0 THEN K_dollar
  ELSE ConstructionPath(nodes[id].parent) \o Segment(OriginalKey(id))

\* The key the visitor is to leave in node id: that of the input for the top
\* node, for an array element and for a member whose construction path matches
\* a skip pattern, and f of it for any other member.
KeyAfterVisit(id) ==
  IF Encloser(id) = 0 THEN nodes[id].key
  ELSE IF nodes[Encloser(id)].kind = "object"
          /\ ~Matches(skipList, ConstructionPath(id))
  THEN StrKey(Apply(fn, OriginalKey(id).s))
  ELSE OriginalKey(id)

\* C11: from the end of the construction on, through the whole visitor pass and
\* up to the return, the path of every node is the one computed at construction
\* from the keys of the input, whatever keys the visitor has written meanwhile
\* in the node or above it; and once the pass is over every key is the one
\* decided by testing the skip patterns against that path.
C11_PathsKeptThroughVisit ==
  /\ TreeBuilt => \A n \in 1..Len(nodes) : nodes[n].jsonpath = ConstructionPath(n)
  /\ (pc = "visited" \/ (Returned /\ nodes # <<>>)) =>
       \A n \in 1..Len(nodes) : nodes[n].key = KeyAfterVisit(n)

\* C11 witness: the visitor is inside an object whose own key it has already
\* rewritten, and the paths of that object and of its member are still built
\* from the keys of the input.
C11_Witness ==
  /\ pc = "visit" /\ Len(vstack) = 2
  /\ LET n == Last(vstack).id IN
     /\ nodes[n].key # OriginalKey(n)
     /\ nodes[n].jsonpath = K_dollar \o Segment(OriginalKey(n))
     /\ Last(vstack).i = 2
     /\ LET c == nodes[n].children[1] IN
        /\ nodes[c].key # OriginalKey(c)
        /\ nodes[c].jsonpath = nodes[n].jsonpath \o Segment(OriginalKey(c))

\* C12: while a construction is in progress every container registered so far,
\* that of each container node already created, is still in the cycle guard's
\* reference set: the set is not cleared before the outermost node finishes.
C12_GuardKeptDuringBuild ==
  pc = "build" =>
    \A n \in 1..Len(nodes) : nodes[n].kind # "scalar" => nodes[n].value.r \in refs

\* C13: in a built tree the top node alone has no parent and the path $; every
\* other node has the node that lists it among its children as parent, and as
\* path the parent's path followed by the segment of its own key in the input.
C13_OnlyTopNodeIsRoot ==
  TreeBuilt =>
    \A n \in 1..Len(nodes) :
      IF n = 1
      THEN nodes[n].parent = 0 /\ nodes[n].jsonpath = K_dollar
      ELSE /\ nodes[n].parent # 0
           /\ nodes[n].parent = Encloser(n)
           /\ nodes[n].jsonpath =
                nodes[Encloser(n)].jsonpath \o Segment(OriginalKey(n))

\* The children of node n whose key after the visitor pass is k, and the last
\* of them in child order.
Bearing(n, k) == {j \in 1..Len(nodes[n].children) : nodes[nodes[n].children[j]].key.s = k}

LastBearing(n, k) ==
  nodes[n].children[CHOOSE j \in Bearing(n, k) : \A i \in Bearing(n, k) : i <= j]

\* Some object node has two children with the same key.
Collides(n) ==
  /\ nodes[n].kind = "object"
  /\ \E i \in 1..Len(nodes[n].children) : \E j \in 1..Len(nodes[n].children) :
       i # j /\ nodes[nodes[n].children[i]].key = nodes[nodes[n].children[j]].key

\* The value res is the reconstruction of node n in which, of the children of
\* an object that bear one key, the last alone is kept.
RECURSIVE LastWins(_, _)
LastWins(res, n) ==
  LET kids == nodes[n].children IN
  IF nodes[n].kind = "scalar" THEN res = Same(nodes[n].value)
  ELSE IF nodes[n].kind = "array"
  THEN /\ res.t = "array"
       /\ Len(res.e) = Len(kids)
       /\ \A j \in 1..Len(kids) : LastWins(res.e[j].x, kids[j])
  ELSE /\ res.t = "object"
       /\ \A i \in 1..Len(res.e) : \A j \in 1..Len(res.e) :
            res.e[i].k = res.e[j].k => i = j
       /\ {res.e[j].k : j \in 1..Len(res.e)} = {nodes[kids[j]].key.s : j \in 1..Len(kids)}
       /\ \A j \in 1..Len(res.e) : LastWins(res.e[j].x, LastBearing(n, res.e[j].k))

\* C14: a call whose tree has sibling members with the same key after the
\* visitor pass returns all the same, and in its result every object has one
\* entry per key, holding the reconstruction of the last child bearing that key.
C14_LastSiblingWinsOnCollision ==
  /\ (pc = "visited" /\ \E n \in 1..Len(nodes) : Collides(n)) => ENABLED Return
  /\ (Returned /\ nodes # <<>>) => LastWins(result, 1)

\* C14 witness: two members of the input object, a scalar then an object, came
\* out under one key, and the result has the object alone.
C14_Witness ==
  /\ Returned /\ nodes # <<>>
  /\ Collides(1)
  /\ Len(nodes[1].children) = 2
  /\ nodes[nodes[1].children[1]].kind = "scalar"
  /\ nodes[nodes[1].children[2]].kind = "object"
  /\ Len(result.e) = 1
  /\ result.e[1].x.t = "object"

\* Some container occurs at two positions of v of which neither is above the
\* other: under two different members or elements of one container.
SharedReference(h, v) ==
  /\ v.t = "ref"
  /\ \E q \in Reachable(h, v) :
       \E i \in 1..Len(h[q].entries) : \E j \in 1..Len(h[q].entries) :
         /\ i # j
         /\ h[q].entries[i].v.t = "ref"
         /\ h[q].entries[j].v.t = "ref"
         /\ Reachable(h, h[q].entries[i].v) \cap Reachable(h, h[q].entries[j].v) # {}

\* C15: a call on an input in which one container occurs at two positions that
\* are not above one another ends by raising CircularReference.
C15_SharedReferenceRaisesCircularReference ==
  (pc = "done" /\ SharedReference(heap, input)) => outcome = "CircularReference"

\* The value the input holds at the place of node id.
InputValueAt(id) ==
  LET n == nodes[Encloser(id)] IN
  IF Encloser(id) = 0 THEN input
  ELSE IF n.kind = "array" THEN heap[n.value.r].entries[Place(id)].v
  ELSE Members(heap[n.value.r].entries)[Place(id)].v

\* A step leaves of every node all but the key as it was.
OnlyKeysChange ==
  /\ Len(nodes') = Len(nodes)
  /\ \A n \in 1..Len(nodes) :
       nodes'[n] = [nodes[n] EXCEPT !.key = nodes'[n].key]

\* C16: no step of a call, be it one that returns or one that raises, changes
\* a container of the caller; every node of a built tree holds the value the
\* input has at its place, and the steps of the visitor pass and of the
\* reconstruction change nothing of a node but its key.
C16_InputNeverModified ==
  [][/\ heap' = heap
     /\ TreeBuilt => \A n \in 1..Len(nodes) : nodes[n].value = InputValueAt(n)
     /\ pc \in {"built", "visit", "visited"} => OnlyKeysChange]_vars

\* C16 witness: a call has returned an object with a key rewritten at two
\* depths, and the nodes still hold the values of the input, whose keys are
\* those it had.
C16_Witness ==
  /\ Returned /\ NonEmptyInput
  /\ \E n \in 2..Len(nodes) :
       /\ nodes[n].kind = "object"
       /\ nodes[n].key # OriginalKey(n)
       /\ nodes[n].value = InputValueAt(n)
       /\ \E j \in 1..Len(nodes[n].children) :
            /\ nodes[nodes[n].children[j]].key # OriginalKey(nodes[n].children[j])
            /\ nodes[nodes[n].children[j]].value = InputValueAt(nodes[n].children[j])
  /\ result # Same(input)

=============================================================================
